---- MODULE Spec2Model ----
(***************************************************************************)
(* State-machine model of the youtube-transcript-sdk client                *)
(* (src/src/client.ts, src/src/errors.ts, src/src/types.ts).               *)
(*                                                                         *)
(* One client object, a pool of caller tasks each running one public       *)
(* operation, and the HTTP requests those operations have in flight.  The  *)
(* server, the network and the timers are the environment: their choices   *)
(* are the \E-bound inputs of the actions.                                 *)
(***************************************************************************)
EXTENDS Integers, Sequences, FiniteSets, TLC

VARIABLES client, tasks, reqs

vars == <<client, tasks, reqs>>

(***************************************************************************)
(* Bounds of the model.                                                    *)
(***************************************************************************)
MaxTasks == 2
MaxAttemptsOpt == 2
MaxHdrLen == 2
MaxResults == 1

(***************************************************************************)
(* Program constants.                                                      *)
(***************************************************************************)
DEFAULT_TIMEOUT == 30000
DEFAULT_INTERVAL == 5000
DEFAULT_MAX_ATTEMPTS == 60
DEFAULT_BASE_URL == <<"h">>

(***************************************************************************)
(* JavaScript values.  An optional value is None (undefined / null) or     *)
(* Some(v).  Strings whose characters matter are sequences of one-char     *)
(* strings.                                                                *)
(***************************************************************************)
None == [some |-> FALSE, v |-> 0]
SomeNum(n) == [some |-> TRUE, v |-> n]

NoStr == [some |-> FALSE, v |-> <<>>]
SomeStr(s) == [some |-> TRUE, v |-> s]

\* JavaScript truthiness of an optional number / an optional string.
TruthyNum(o) == o.some /\ o.v # 0
TruthyStr(o) == o.some /\ o.v # <<>>

\* a || b for optional numbers and optional strings.
OrNum(o, d) == IF TruthyNum(o) THEN o.v ELSE d
OrStr(o, d) == IF TruthyStr(o) THEN o.v ELSE d

\* All sequences over S of length at most n.
SeqsUpTo(S, n) == UNION {[1..k -> S] : k \in 0..n}

(***************************************************************************)
(* parseInt(string, 10): skip leading white space, take an optional sign,  *)
(* then the longest prefix of decimal digits; NaN when that prefix is      *)
(* empty.  The result is a number value [nan, v].                          *)
(***************************************************************************)
DigitChars == <<"0", "1", "2", "3", "4", "5", "6", "7", "8", "9">>
Digits == {DigitChars[k] : k \in 1..Len(DigitChars)}
DigitVal(c) == (CHOOSE k \in 1..Len(DigitChars) : DigitChars[k] = c) - 1

NaN == [nan |-> TRUE, v |-> 0]
Num(n) == [nan |-> FALSE, v |-> n]

RECURSIVE SkipWhite(_)
SkipWhite(s) ==
    IF s # <<>> /\ Head(s) = " " THEN SkipWhite(Tail(s)) ELSE s

RECURSIVE DigitPrefix(_)
DigitPrefix(s) ==
    IF s # <<>> /\ Head(s) \in Digits
        THEN <<Head(s)>> \o DigitPrefix(Tail(s))
        ELSE <<>>

RECURSIVE DecimalValue(_)
DecimalValue(ds) ==
    IF ds = <<>> THEN 0
    ELSE 10 * DecimalValue(SubSeq(ds, 1, Len(ds) - 1)) + DigitVal(ds[Len(ds)])

parseInt(s) ==
    LET t == SkipWhite(s)
        neg == t # <<>> /\ Head(t) = "-"
        signed == t # <<>> /\ Head(t) \in {"-", "+"}
        u == IF signed THEN Tail(t) ELSE t
        ds == DigitPrefix(u)
    IN  IF ds = <<>> THEN NaN
        ELSE Num(IF neg THEN 0 - DecimalValue(ds) ELSE DecimalValue(ds))

(***************************************************************************)
(* The error taxonomy (errors.ts).  An error value carries its class name, *)
(* the status / errorCode / message fields of YouTubeTranscriptError and   *)
(* the retryAfter field of RateLimitError; retryAfter is an optional       *)
(* number value: [def |-> FALSE] is undefined.                             *)
(***************************************************************************)
Undef == [def |-> FALSE, nan |-> FALSE, v |-> 0]
Defined(n) == [def |-> TRUE, nan |-> n.nan, v |-> n.v]

\* new YouTubeTranscriptError(status, body): message = body.message || body.error
YouTubeTranscriptError(status, body) ==
    [name |-> "YouTubeTranscriptError", status |-> status,
     errorCode |-> body.error,
     message |-> IF body.message # "" THEN body.message ELSE body.error,
     retryAfter |-> Undef]

InvalidRequestError(body) ==
    [YouTubeTranscriptError(400, body) EXCEPT !.name = "InvalidRequestError"]

AuthenticationError(body) ==
    [YouTubeTranscriptError(401, body) EXCEPT !.name = "AuthenticationError"]

InsufficientCreditsError(body) ==
    [YouTubeTranscriptError(402, body) EXCEPT !.name = "InsufficientCreditsError"]

NoCaptionsError(body) ==
    [YouTubeTranscriptError(404, body) EXCEPT !.name = "NoCaptionsError"]

RateLimitError(body, retryAfter) ==
    [YouTubeTranscriptError(429, body) EXCEPT !.name = "RateLimitError",
                                              !.retryAfter = retryAfter]

\* createError(status, body, headers); hdr is headers.get("Retry-After").
RetryAfterOf(hdr) ==
    IF TruthyStr(hdr) THEN Defined(parseInt(hdr.v)) ELSE Undef

\* Faulty variant: the 404 case is missing from the switch.
createErrorNo404(status, body, hdr) ==
    CASE status = 400 -> InvalidRequestError(body)
      [] status = 401 -> AuthenticationError(body)
      [] status = 402 -> InsufficientCreditsError(body)
      [] status = 429 -> RateLimitError(body, RetryAfterOf(hdr))
      [] OTHER -> YouTubeTranscriptError(status, body)

createError(status, body, hdr) ==
    CASE status = 400 -> InvalidRequestError(body)
      [] status = 401 -> AuthenticationError(body)
      [] status = 402 -> InsufficientCreditsError(body)
      [] status = 404 -> NoCaptionsError(body)
      [] status = 429 -> RateLimitError(body, RetryAfterOf(hdr))
      [] OTHER -> YouTubeTranscriptError(status, body)

(***************************************************************************)
(* Values of the protocol (types.ts).                                      *)
(***************************************************************************)
TranscribeStatus == {"completed", "processing", "failed", "requires_asr_confirmation"}
BatchStatus == {"completed", "partial", "processing"}

\* A response body as response.json() finds it.  json is "none" (no body
\* read yet), "object", "null" (the JSON literal null) or "invalid" (text
\* that response.json() rejects).  An object carries the ErrorResponse
\* fields, the status field and, for a batch, the statuses of its
\* per-video results.
NoBody == [json |-> "none", error |-> "", message |-> "", status |-> "", results |-> <<>>]
InvalidBody == [NoBody EXCEPT !.json = "invalid"]
NullBody == [NoBody EXCEPT !.json = "null"]
ObjBody(error, message, status, results) ==
    [json |-> "object", error |-> error, message |-> message,
     status |-> status, results |-> results]

\* A request path: endpoint, identifier and query parameters.
NoPath == [ep |-> "", id |-> "", query |-> <<>>]
Path(ep, id, query) == [ep |-> ep, id |-> id, query |-> query]

IncludeFlags == <<"include_segments", "include_paragraphs", "include_words">>

\* URLSearchParams of getJob: a flag is set only when its option is truthy.
QueryOf(flags) ==
    LET keep(k) == IF IncludeFlags[k] \in flags THEN <<IncludeFlags[k]>> ELSE <<>>
    IN  keep(1) \o keep(2) \o keep(3)

(***************************************************************************)
(* Outcomes of a request or of a public operation.  kind is                *)
(*   "none"        still pending                                           *)
(*   "return"      the parsed body is returned (data)                      *)
(*   "typed"       a YouTubeTranscriptError is raised (err)                *)
(*   "timeout"     Error("Request to <path> timed out after <timeout>ms")  *)
(*   "TypeError"   a transport failure or a property read of null          *)
(*   "SyntaxError" response.json() rejected the body                       *)
(*   "exhausted"   Error("<what> <id> did not complete after <n> attempts")*)
(***************************************************************************)
NoErr == [name |-> "", status |-> 0, errorCode |-> "", message |-> "", retryAfter |-> Undef]

Pending == [kind |-> "none", err |-> NoErr, data |-> NoBody, path |-> NoPath,
            timeout |-> 0, what |-> "", attempts |-> 0]
Return(data) == [Pending EXCEPT !.kind = "return", !.data = data]
Typed(err) == [Pending EXCEPT !.kind = "typed", !.err = err]
TimeoutError(path, timeout) ==
    [Pending EXCEPT !.kind = "timeout", !.path = path, !.timeout = timeout]
TypeError == [Pending EXCEPT !.kind = "TypeError"]
SyntaxError == [Pending EXCEPT !.kind = "SyntaxError"]
Exhausted(what, id, attempts) ==
    [Pending EXCEPT !.kind = "exhausted", !.what = what,
                    !.path = Path("", id, <<>>), !.attempts = attempts]

(***************************************************************************)
(* State.                                                                  *)
(*   client  the YouTubeTranscript object: state is "none" before          *)
(*           construction, "ok" once constructed, "failed" when the        *)
(*           constructor threw.                                            *)
(*   tasks   one record per caller task, each running one public operation.*)
(*   reqs    the pool of calls of request(): a call holds its own          *)
(*           AbortController (aborted) and its own timeout timer (timer).  *)
(***************************************************************************)
Tasks == 1..MaxTasks
Reqs == 1..(MaxTasks + 1)

NoClient == [state |-> "none", apiKey |-> <<>>, baseUrl |-> <<>>, timeout |-> 0]

IdleTask == [op |-> "", pc |-> "idle", id |-> "", i |-> 0, maxAttempts |-> 0,
             interval |-> 0, req |-> 0, sleep |-> "none",
             calls |-> 0, delays |-> 0, nonTerm |-> 0, term |-> 0,
             optAttempts |-> None, out |-> Pending]

FreeReq == [st |-> "free", owner |-> 0, method |-> "", path |-> NoPath,
            url |-> <<>>, auth |-> <<>>, hasBody |-> FALSE,
            timer |-> "none", delay |-> 0, aborted |-> FALSE,
            status |-> 0, hdr |-> NoStr, body |-> NoBody, out |-> Pending]

Init ==
    /\ client = NoClient
    /\ tasks = [t \in Tasks |-> IdleTask]
    /\ reqs = [r \in Reqs |-> FreeReq]

(***************************************************************************)
(* constructor(options)                                                    *)
(***************************************************************************)
RECURSIVE StripTrailingSlashes(_)
StripTrailingSlashes(s) ==
    IF s # <<>> /\ s[Len(s)] = "/"
        THEN StripTrailingSlashes(SubSeq(s, 1, Len(s) - 1))
        ELSE s

\* Faulty variant: the constructor only rejects an undefined apiKey.
apiKeyMissingUndefinedOnly(options) == ~options.apiKey.some

\* if (!options.apiKey) throw ...
apiKeyMissing(options) == ~TruthyStr(options.apiKey)

constructed(options) ==
    [state |-> "ok",
     apiKey |-> options.apiKey.v,
     baseUrl |-> StripTrailingSlashes(OrStr(options.baseUrl, DEFAULT_BASE_URL)),
     timeout |-> OrNum(options.timeout, DEFAULT_TIMEOUT)]

Construct(options) ==
    /\ client.state # "ok"
    /\ client' = IF apiKeyMissing(options)
                    THEN [NoClient EXCEPT !.state = "failed"]
                    ELSE constructed(options)
    /\ UNCHANGED <<tasks, reqs>>

(***************************************************************************)
(* request(method, path, body): the call up to its first await.  A fresh   *)
(* AbortController and a fresh timeout timer are created for the call and  *)
(* fetch is issued with the client's credential.                           *)
(***************************************************************************)
FreeSlot ==
    CHOOSE r \in Reqs :
        /\ reqs[r].st = "free"
        /\ \A q \in Reqs : q < r => reqs[q].st # "free"

requestStart(t, method, path, hasBody) ==
    [reqs EXCEPT ![FreeSlot] =
        [FreeReq EXCEPT !.st = "fetching", !.owner = t, !.method = method,
                        !.path = path, !.url = <<client.baseUrl, path>>,
                        !.auth = client.apiKey, !.hasBody = hasBody,
                        !.timer = "armed", !.delay = client.timeout]]

\* Faulty variant: every status below 400 counts as success.
responseOkBelow400(status) == status < 400

\* response.ok
responseOk(status) == status \in 200..299

\* finally { clearTimeout(timeoutId) }
clearTimeout(timer) == IF timer = "armed" THEN "cleared" ELSE timer

AbortError == [Pending EXCEPT !.kind = "AbortError"]

\* Faulty variant: the catch clause does not translate AbortError.
catchClauseNoTimeout(thrown, path) == thrown

\* The catch clause of request(): what is thrown to the caller.
catchClause(thrown, path) ==
    IF thrown.kind = "typed" THEN thrown
    ELSE IF thrown.kind = "AbortError" THEN TimeoutError(path, client.timeout)
    ELSE thrown

\* The try block once response.json() has produced `body`.
afterJson(req, body) ==
    IF body.json = "invalid" THEN catchClause(SyntaxError, req.path)
    ELSE IF ~responseOk(req.status)
        THEN IF body.json = "null"
                THEN catchClause(TypeError, req.path)
                ELSE catchClause(Typed(createError(req.status, body, req.hdr)), req.path)
        ELSE Return(body)

\* The call settles with outcome `out`; the finally clause clears its timer.
settle(r, out) ==
    [reqs EXCEPT ![r] = [reqs[r] EXCEPT !.st = "done", !.out = out,
                                         !.timer = clearTimeout(reqs[r].timer)]]

\* fetch resolves: status line and headers have arrived.
FetchResolve(r, status, hdr) ==
    /\ reqs[r].st = "fetching"
    /\ ~reqs[r].aborted
    /\ reqs' = [reqs EXCEPT ![r] = [reqs[r] EXCEPT !.st = "reading",
                                                   !.status = status, !.hdr = hdr]]
    /\ UNCHANGED <<client, tasks>>

\* fetch rejects: DNS failure, connection reset, ...
FetchReject(r) ==
    /\ reqs[r].st = "fetching"
    /\ ~reqs[r].aborted
    /\ reqs' = settle(r, catchClause(TypeError, reqs[r].path))
    /\ UNCHANGED <<client, tasks>>

\* response.json() settles: the body has been read and parsed (or not).
BodyResolve(r, body) ==
    /\ reqs[r].st = "reading"
    /\ ~reqs[r].aborted
    /\ reqs' = [settle(r, afterJson(reqs[r], body)) EXCEPT ![r].body = body]
    /\ UNCHANGED <<client, tasks>>

\* The body stream fails while it is read.
BodyReject(r) ==
    /\ reqs[r].st = "reading"
    /\ ~reqs[r].aborted
    /\ reqs' = settle(r, catchClause(TypeError, reqs[r].path))
    /\ UNCHANGED <<client, tasks>>

\* Faulty variant: one AbortController shared by all the calls of the client.
abortShared(r) ==
    [q \in Reqs |->
        IF q = r THEN [reqs[q] EXCEPT !.timer = "fired", !.aborted = TRUE]
        ELSE [reqs[q] EXCEPT !.aborted = (reqs[q].st # "free")]]

\* The timer callback, () => controller.abort(): aborts this call's controller.
abortBy(r) ==
    [reqs EXCEPT ![r] = [reqs[r] EXCEPT !.timer = "fired", !.aborted = TRUE]]

TimerFire(r) ==
    /\ reqs[r].timer = "armed"
    /\ reqs' = abortBy(r)
    /\ UNCHANGED <<client, tasks>>

\* The pending fetch / json promise of an aborted call rejects with AbortError.
AbortReject(r) ==
    /\ reqs[r].st \in {"fetching", "reading"}
    /\ reqs[r].aborted
    /\ reqs' = settle(r, catchClause(AbortError, reqs[r].path))
    /\ UNCHANGED <<client, tasks>>

(***************************************************************************)
(* The single-call operations: transcribe, getTranscript, batch, getJob,   *)
(* getBatch.  Each runs request() once and settles with its outcome.       *)
(***************************************************************************)
JobId == "j"
BatchId == "b"

call(t, op, method, path, hasBody) ==
    /\ client.state = "ok"
    /\ tasks[t].pc = "idle"
    /\ reqs' = requestStart(t, method, path, hasBody)
    /\ tasks' = [tasks EXCEPT ![t] =
                    [IdleTask EXCEPT !.op = op, !.pc = "awaiting",
                                     !.req = FreeSlot, !.calls = 1]]
    /\ UNCHANGED client

transcribe(t) == call(t, "transcribe", "POST", Path("/transcribe", "", <<>>), TRUE)

getTranscript(t) == call(t, "getTranscript", "POST", Path("/transcribe", "", <<>>), TRUE)

batch(t) == call(t, "batch", "POST", Path("/batch", "", <<>>), TRUE)

getJob(t, flags) == call(t, "getJob", "GET", Path("/jobs/", JobId, QueryOf(flags)), FALSE)

getBatch(t) == call(t, "getBatch", "GET", Path("/batch/", BatchId, <<>>), FALSE)

(***************************************************************************)
(* waitForJob / waitForBatch.                                              *)
(***************************************************************************)
Loops == {"waitForJob", "waitForBatch"}

\* Faulty variant: waitForBatch also returns on a partial batch.
batchTerminalPartial(status) == status = "completed" \/ status = "partial"

\* The statuses on which each loop returns.
jobTerminal(status) == status = "completed" \/ status = "failed"
batchTerminal(status) == status = "completed"
terminal(op, status) ==
    IF op = "waitForJob" THEN jobTerminal(status) ELSE batchTerminal(status)

pollPath(op) ==
    IF op = "waitForJob" THEN Path("/jobs/", JobId, QueryOf({}))
                         ELSE Path("/batch/", BatchId, <<>>)

\* const maxAttempts = options?.maxAttempts || 60
effectiveMaxAttempts(opt) == OrNum(opt, DEFAULT_MAX_ATTEMPTS)

\* Faulty variant: the loop condition is i <= maxAttempts.
loopContinuesOffByOne(i, maxAttempts) == i <= maxAttempts

\* The loop condition i < maxAttempts.
loopContinues(i, maxAttempts) == i < maxAttempts

\* The top of the for loop: poll once more, or throw the exhaustion error.
loopTop(t, task) ==
    IF loopContinues(task.i, task.maxAttempts)
        THEN /\ reqs' = requestStart(t, "GET", pollPath(task.op), FALSE)
             /\ tasks' = [tasks EXCEPT ![t] =
                            [task EXCEPT !.pc = "awaiting", !.req = FreeSlot,
                                         !.calls = task.calls + 1]]
        ELSE /\ tasks' = [tasks EXCEPT ![t] =
                            [task EXCEPT !.pc = "done", !.req = 0,
                                !.out = Exhausted(IF task.op = "waitForJob"
                                                     THEN "Job" ELSE "Batch",
                                                  task.id, task.maxAttempts)]]
             /\ UNCHANGED reqs

waitFor(t, op, id, options) ==
    /\ client.state = "ok"
    /\ tasks[t].pc = "idle"
    /\ loopTop(t, [IdleTask EXCEPT !.op = op, !.id = id,
                       !.interval = OrNum(options.interval, DEFAULT_INTERVAL),
                       !.maxAttempts = effectiveMaxAttempts(options.maxAttempts),
                       !.optAttempts = options.maxAttempts])
    /\ UNCHANGED client

waitForJob(t, options) == waitFor(t, "waitForJob", JobId, options)

waitForBatch(t, options) == waitFor(t, "waitForBatch", BatchId, options)

\* Faulty variant: a loop swallows the error of a failed poll and polls again.
afterRequestSwallow(op, out) ==
    IF op \in Loops
        THEN IF out.kind # "return" THEN "sleep"
             ELSE IF out.data.json = "null" THEN "null"
             ELSE IF op = "waitForJob" /\ out.data.status \in {"completed", "failed"} THEN "return"
             ELSE IF op = "waitForBatch" /\ out.data.status = "completed" THEN "return"
             ELSE "sleep"
        ELSE IF out.kind # "return" THEN "throw" ELSE "return"

\* What an operation does with the settled outcome of the request it awaits:
\* "throw" (the error propagates), "return" or, in a loop, "sleep".
afterRequest(op, out) ==
    IF out.kind # "return" THEN "throw"
    ELSE IF op \notin Loops THEN "return"
    ELSE IF out.data.json = "null" THEN "null"
    ELSE IF terminal(op, out.data.status) THEN "return"
    ELSE "sleep"

\* The awaited request has settled: the operation continues.
Resume(t) ==
    LET task == tasks[t]
        r == task.req
        out == reqs[r].out
        next == afterRequest(task.op, out)
        polled == IF task.op \in Loops /\ out.kind = "return" /\ next # "null"
                    THEN IF next = "return"
                            THEN [task EXCEPT !.term = task.term + 1]
                            ELSE [task EXCEPT !.nonTerm = task.nonTerm + 1]
                    ELSE task
    IN  /\ task.pc = "awaiting"
        /\ reqs[r].st = "done"
        /\ reqs' = [reqs EXCEPT ![r] = FreeReq]
        /\ tasks' = [tasks EXCEPT ![t] =
              CASE next = "sleep" ->
                      [polled EXCEPT !.pc = "sleeping", !.req = 0, !.sleep = "armed"]
                [] next = "null" ->
                      [polled EXCEPT !.pc = "done", !.req = 0, !.out = TypeError]
                [] OTHER ->
                      [polled EXCEPT !.pc = "done", !.req = 0, !.out = out]]
        /\ UNCHANGED client

\* The timer of setTimeout(resolve, interval) fires.
DelayElapsed(t) ==
    /\ tasks[t].sleep = "armed"
    /\ tasks' = [tasks EXCEPT ![t] = [tasks[t] EXCEPT !.sleep = "fired",
                                                      !.delays = tasks[t].delays + 1]]
    /\ UNCHANGED <<client, reqs>>

\* Faulty variant: the delay promise is not awaited.
delayNotAwaited(task) == TRUE

\* await new Promise(resolve => setTimeout(resolve, interval))
delayAwaited(task) == task.sleep = "fired"

\* The delay is over: i++ and back to the top of the loop.
Continue(t) ==
    /\ tasks[t].pc = "sleeping"
    /\ delayAwaited(tasks[t])
    /\ loopTop(t, [tasks[t] EXCEPT !.i = tasks[t].i + 1, !.sleep = "none"])
    /\ UNCHANGED client

(***************************************************************************)
(* Inputs: what callers pass and what the server and the network answer.   *)
(***************************************************************************)
ApiKeys == {NoStr, SomeStr(<<>>), SomeStr(<<"k">>)}
BaseUrls == {NoStr, SomeStr(<<"x", "/", "/">>)}
Timeouts == {None, SomeNum(0), SomeNum(1000)}

ClientOptions == [apiKey : ApiKeys, baseUrl : BaseUrls, timeout : Timeouts]
TimeoutOptions == [apiKey : ApiKeys, baseUrl : {NoStr}, timeout : Timeouts]
PlainOptions == [apiKey : ApiKeys, baseUrl : {NoStr}, timeout : {None}]

StatusCodes == {200, 201, 302, 400, 401, 402, 403, 404, 429, 500}
FewStatusCodes == {200, 500}

\* Values of headers.get("Retry-After"): null, or a string with no leading
\* or trailing white space (the Headers object strips it).
HdrChars == {"1", "7", "-", "s", " "}
RetryAfterHeaders ==
    {NoStr} \cup {SomeStr(h) : h \in {x \in SeqsUpTo(HdrChars, MaxHdrLen) :
                                        x = <<>> \/ (x[1] # " " /\ x[Len(x)] # " ")}}

FlagSets == SUBSET {"include_segments", "include_paragraphs", "include_words"}

\* Bodies of error responses and of transcription / batch responses.
ErrorBodies ==
    {InvalidBody, NullBody} \cup {ObjBody("e", m, st, <<>>) : m \in {"", "m"}, st \in {"", "completed"}}
JobBodies ==
    {InvalidBody, NullBody} \cup {ObjBody("", "", st, <<>>) : st \in TranscribeStatus}
BatchBodies ==
    {ObjBody("", "", st, rs) : st \in BatchStatus, rs \in SeqsUpTo({"completed", "failed"}, MaxResults)}
PollBodies == JobBodies \cup BatchBodies

\* options of waitForJob / waitForBatch.
AttemptOptions == {None, SomeNum(-1)} \cup {SomeNum(n) : n \in 0..MaxAttemptsOpt}
WaitOptions == [interval : {None, SomeNum(0), SomeNum(10)}, maxAttempts : AttemptOptions]
ShortWaitOptions == [interval : {None}, maxAttempts : {SomeNum(2)}]

(***************************************************************************)
(* Spec: one caller task running any of the public operations.             *)
(***************************************************************************)
Next ==
    \/ \E o \in ClientOptions : Construct(o)
    \/ transcribe(1)
    \/ getTranscript(1)
    \/ batch(1)
    \/ \E f \in FlagSets : getJob(1, f)
    \/ getBatch(1)
    \/ \E o \in WaitOptions : waitForJob(1, o)
    \/ \E o \in WaitOptions : waitForBatch(1, o)
    \/ \E r \in Reqs, s \in FewStatusCodes : FetchResolve(r, s, NoStr)
    \/ \E r \in Reqs : FetchReject(r)
    \/ \E r \in Reqs, b \in PollBodies : BodyResolve(r, b)
    \/ \E r \in Reqs : BodyReject(r)
    \/ \E r \in Reqs : TimerFire(r)
    \/ \E r \in Reqs : AbortReject(r)
    \/ Resume(1)
    \/ DelayElapsed(1)
    \/ Continue(1)

Spec == Init /\ [][Next]_vars

(***************************************************************************)
(* SpecErr: one request at a time, against every status code, Retry-After  *)
(* header and error body.                                                  *)
(***************************************************************************)
NextErr ==
    \/ \E o \in TimeoutOptions : Construct(o)
    \/ transcribe(1)
    \/ \E f \in {{}, {"include_words"}} : getJob(1, f)
    \/ \E r \in Reqs, s \in StatusCodes, h \in RetryAfterHeaders : FetchResolve(r, s, h)
    \/ \E r \in Reqs : FetchReject(r)
    \/ \E r \in Reqs, b \in ErrorBodies : BodyResolve(r, b)
    \/ \E r \in Reqs : BodyReject(r)
    \/ \E r \in Reqs : TimerFire(r)
    \/ \E r \in Reqs : AbortReject(r)
    \/ Resume(1)

SpecErr == Init /\ [][NextErr]_vars

(***************************************************************************)
(* SpecConc: several caller tasks of one client running concurrently.      *)
(***************************************************************************)
NextConc ==
    \/ \E o \in PlainOptions : Construct(o)
    \/ \E t \in Tasks : transcribe(t)
    \/ \E t \in Tasks, o \in ShortWaitOptions : waitForJob(t, o)
    \/ \E r \in Reqs, s \in FewStatusCodes : FetchResolve(r, s, NoStr)
    \/ \E r \in Reqs : FetchReject(r)
    \/ \E r \in Reqs, b \in {ObjBody("", "", "processing", <<>>)} : BodyResolve(r, b)
    \/ \E r \in Reqs : TimerFire(r)
    \/ \E r \in Reqs : AbortReject(r)
    \/ \E t \in Tasks : Resume(t)
    \/ \E t \in Tasks : DelayElapsed(t)
    \/ \E t \in Tasks : Continue(t)

SpecConc == Init /\ [][NextConc]_vars

(***************************************************************************)
(* Properties.                                                             *)
(***************************************************************************)
InFlight(t) == {r \in Reqs : reqs[r].owner = t /\ reqs[r].st \in {"fetching", "reading"}}

\* The status -> variant table of the Error Mapper.
VariantOf(status) ==
    CASE status = 400 -> "InvalidRequestError"
      [] status = 401 -> "AuthenticationError"
      [] status = 402 -> "InsufficientCreditsError"
      [] status = 404 -> "NoCaptionsError"
      [] status = 429 -> "RateLimitError"
      [] OTHER -> "YouTubeTranscriptError"

ValidInteger(hdr) ==
    /\ hdr.some
    /\ hdr.v # <<>>
    /\ \A k \in 1..Len(hdr.v) : hdr.v[k] \in Digits

\* C2: on a 429 response the Rate Limit error's retryAfter is present and
\* numeric if and only if the Retry-After header is a valid integer, and is
\* absent for a missing, empty or non-integer header.
C2_RetryAfterIffValidInteger ==
    \A r \in Reqs :
        (reqs[r].st = "done" /\ reqs[r].out.kind = "typed" /\ reqs[r].status = 429) =>
            LET ra == reqs[r].out.err.retryAfter
            IN  /\ (ra.def /\ ~ra.nan) <=> ValidInteger(reqs[r].hdr)
                /\ ~ValidInteger(reqs[r].hdr) => ~ra.def

\* The number of polls a loop makes before it gives up, by its maxAttempts
\* option: the option when it is positive, 60 when it is absent or 0, and
\* none when it is negative.
ExpectedAttempts(opt) ==
    IF ~opt.some \/ opt.v = 0 THEN 60
    ELSE IF opt.v > 0 THEN opt.v ELSE 0

\* C3 (amended): waitForJob returns the result of the first poll whose
\* status is completed or failed and polls no more; it fails with the
\* exhaustion error after exactly N polls that all returned a non-terminal
\* status, N being ExpectedAttempts of the maxAttempts option.
C3_WaitForJob ==
    \A t \in Tasks :
        tasks[t].op = "waitForJob" =>
            LET task == tasks[t]
                N == ExpectedAttempts(task.optAttempts)
            IN  /\ task.calls <= N
                /\ task.term <= 1
                /\ task.term = 1 =>
                      /\ task.pc = "done"
                      /\ task.out.kind = "return"
                      /\ task.out.data.status \in {"completed", "failed"}
                      /\ task.calls = task.nonTerm + 1
                /\ (task.pc = "done" /\ task.out.kind = "return") => task.term = 1
                /\ (task.pc # "done" /\ task.nonTerm > 0) =>
                      task.nonTerm \in {task.calls, task.calls - 1}
                /\ (task.nonTerm = N /\ N > 0) =>
                      /\ task.pc \in {"sleeping", "done"}
                      /\ task.pc = "done" => task.out.kind = "exhausted"
                /\ task.out.kind = "exhausted" =>
                      /\ task.calls = N
                      /\ task.nonTerm = N
                      /\ N > 0 => task.out.attempts = N
                      /\ task.out.what = "Job"

C3_Witness ==
    \E t \in Tasks :
        /\ tasks[t].op = "waitForJob"
        /\ tasks[t].optAttempts = SomeNum(2)
        /\ tasks[t].out.kind = "exhausted"
        /\ tasks[t].calls = 2

\* C3 (as stated): for every maxAttempts option (60 when absent) waitForJob
\* never issues more than maxAttempts getJob calls and, when it fails with
\* the exhaustion error, has issued exactly maxAttempts of them.
C3_Original ==
    \A t \in Tasks :
        (tasks[t].op = "waitForJob"
            /\ (tasks[t].optAttempts.some => tasks[t].optAttempts.v >= 0)) =>
            LET N == IF tasks[t].optAttempts.some THEN tasks[t].optAttempts.v ELSE 60
            IN  /\ tasks[t].calls <= N
                /\ tasks[t].out.kind = "exhausted" => tasks[t].calls = N

\* C4: waitForBatch returns only on a poll whose batch status is completed,
\* whatever the per-video results; partial and processing keep it polling,
\* and it fails with the exhaustion error once all its polls have returned
\* without completed.
C4_WaitForBatch ==
    \A t \in Tasks :
        tasks[t].op = "waitForBatch" =>
            LET task == tasks[t]
                N == ExpectedAttempts(task.optAttempts)
            IN  /\ (task.pc = "done" /\ task.out.kind = "return") =>
                      /\ task.out.data.status = "completed"
                      /\ task.term = 1
                      /\ task.calls = task.nonTerm + 1
                /\ task.term = 1 => (task.pc = "done" /\ task.out.kind = "return")
                /\ (task.nonTerm = N /\ N > 0) =>
                      /\ task.pc \in {"sleeping", "done"}
                      /\ task.pc = "done" => task.out.kind = "exhausted"
                /\ task.out.kind = "exhausted" =>
                      /\ task.nonTerm = N
                      /\ task.calls = N
                      /\ task.out.what = "Batch"

C4_Witness ==
    \E t \in Tasks :
        /\ tasks[t].op = "waitForBatch"
        /\ tasks[t].pc = "done"
        /\ tasks[t].out.kind = "return"
        /\ tasks[t].out.data.status = "completed"
        /\ tasks[t].out.data.results = <<"failed">>
        /\ tasks[t].nonTerm >= 1

\* C5: a call whose timer has fired is aborted; it settles only with the
\* timeout error naming its path and the client's timeout, having returned
\* no body and raised no typed error.
C5_TimeoutError ==
    \A r \in Reqs :
        /\ reqs[r].timer = "armed" => reqs[r].delay = client.timeout
        /\ reqs[r].timer = "fired" =>
              /\ reqs[r].aborted
              /\ reqs[r].st \in {"fetching", "reading", "done"}
              /\ reqs[r].body.json = "none"
              /\ reqs[r].st = "done" =>
                    /\ reqs[r].out.kind = "timeout"
                    /\ reqs[r].out.path = reqs[r].path
                    /\ reqs[r].out.timeout = client.timeout
                    /\ reqs[r].out.data = NoBody
                    /\ reqs[r].out.err = NoErr

C5_Witness ==
    \E r \in Reqs :
        /\ reqs[r].timer = "fired"
        /\ reqs[r].st = "done"
        /\ reqs[r].status = 500
        /\ reqs[r].out.kind = "timeout"
        /\ reqs[r].out.timeout = 1000

\* C6 (as stated): every HTTP call that completes (its body has been read)
\* with a non-success status raises the typed error of the Error Mapper and
\* does not return the body.
C6_Original ==
    \A r \in Reqs :
        (reqs[r].st = "done" /\ reqs[r].body.json # "none"
            /\ ~(reqs[r].status \in 200..299)) =>
            /\ reqs[r].out.kind = "typed"
            /\ reqs[r].out.err.name = VariantOf(reqs[r].status)

\* C6 (amended): a call that completes with a non-success status never
\* returns the parsed body; it raises the typed error of the Error Mapper
\* when the body parsed to a non-null JSON value, the parse error when the
\* body is not JSON, and a TypeError when the body is the JSON null.  A
\* body is returned only for a success status.
C6_NonSuccessNeverReturns ==
    \A r \in Reqs :
        reqs[r].st = "done" =>
            /\ (reqs[r].body.json # "none" /\ ~(reqs[r].status \in 200..299)) =>
                  /\ reqs[r].out.kind # "return"
                  /\ reqs[r].out.data = NoBody
                  /\ reqs[r].body.json = "object" =>
                        /\ reqs[r].out.kind = "typed"
                        /\ reqs[r].out.err.status = reqs[r].status
                        /\ reqs[r].out.err.errorCode = reqs[r].body.error
                  /\ reqs[r].body.json = "invalid" => reqs[r].out.kind = "SyntaxError"
                  /\ reqs[r].body.json = "null" => reqs[r].out.kind = "TypeError"
            /\ reqs[r].out.kind = "return" =>
                  /\ reqs[r].status \in 200..299
                  /\ reqs[r].out.data = reqs[r].body

C6_Witness ==
    \E r \in Reqs :
        /\ reqs[r].st = "done"
        /\ reqs[r].status = 302
        /\ reqs[r].body.json = "object"
        /\ reqs[r].out.kind = "typed"
        /\ reqs[r].out.err.status = 302

\* C7: an empty or missing credential makes construction fail; a client
\* exists only with a non-empty credential, and every HTTP call is issued
\* by an existing client and carries that credential.
C7_NoCallWithoutCredential ==
    /\ client.state = "ok" => client.apiKey # <<>>
    /\ client.state # "ok" =>
          /\ \A r \in Reqs : reqs[r].st = "free"
          /\ \A t \in Tasks : tasks[t].pc = "idle" /\ tasks[t].calls = 0
    /\ \A r \in Reqs : reqs[r].st # "free" =>
          /\ reqs[r].auth # <<>>
          /\ reqs[r].auth = client.apiKey

C7_Witness ==
    /\ client.state = "failed"
    /\ \A r \in Reqs : reqs[r].st = "free"

\* C8: the single-call operations issue exactly one HTTP call whatever its
\* outcome; in a polling loop a poll that fails ends the loop at once with
\* that error and no further poll.
SingleOps == {"transcribe", "getTranscript", "batch", "getJob", "getBatch"}

C8_Inv ==
    \A t \in Tasks :
        /\ tasks[t].op \in SingleOps =>
              /\ tasks[t].calls = 1
              /\ tasks[t].pc = "awaiting" => reqs[tasks[t].req].owner = t
              /\ tasks[t].pc \in {"awaiting", "done"}
        /\ (tasks[t].op \in Loops /\ tasks[t].pc = "done"
                /\ tasks[t].out.kind \notin {"return", "exhausted"}) =>
              tasks[t].calls = tasks[t].nonTerm + 1

C8_Step ==
    \A t \in Tasks :
        (/\ tasks[t].pc = "awaiting"
         /\ tasks'[t] # tasks[t]
         /\ reqs[tasks[t].req].out.kind # "return") =>
            /\ tasks'[t].pc = "done"
            /\ tasks'[t].out = reqs[tasks[t].req].out
            /\ tasks'[t].calls = tasks[t].calls

\* C8: no failed HTTP call is retried or suppressed (the invariant and the
\* step property above).
C8_NoRetry == [](C8_Inv) /\ [][C8_Step]_vars

C8_Witness ==
    \E t \in Tasks :
        /\ tasks[t].op \in Loops
        /\ tasks[t].pc = "done"
        /\ tasks[t].out.kind = "typed"
        /\ tasks[t].nonTerm = 1
        /\ tasks[t].calls = 2

\* C9: each call has its own timer and AbortController: a call is aborted
\* only by its own timer, the firing of a timer changes no other call, the
\* timer of a settled call is never armed, and no operation changes the
\* client's configuration.
C9_Inv ==
    \A r \in Reqs :
        /\ reqs[r].aborted <=> reqs[r].timer = "fired"
        /\ reqs[r].st = "done" => reqs[r].timer \in {"cleared", "fired"}
        /\ reqs[r].st = "free" => reqs[r].timer = "none"
        /\ reqs[r].st \in {"fetching", "reading"} => reqs[r].timer \in {"armed", "fired"}

C9_Step ==
    /\ client.state = "ok" => client' = client
    /\ \A r \in Reqs :
          (reqs[r].timer = "armed" /\ reqs'[r].timer = "fired") =>
              /\ reqs'[r].aborted
              /\ \A q \in Reqs \ {r} : reqs'[q] = reqs[q]
    /\ \A r \in Reqs :
          (reqs[r].st = "done" /\ reqs'[r].st = "done") => reqs'[r] = reqs[r]

\* C9: own timer and own AbortController per call, timers cleared on
\* settling, configuration never changed (the invariant and the step
\* property above).
C9_OwnTimer == [](C9_Inv) /\ [][C9_Step]_vars

C9_Witness ==
    \E r, q \in Reqs :
        /\ r # q
        /\ reqs[r].owner # reqs[q].owner
        /\ reqs[r].st = "done" /\ reqs[r].out.kind = "timeout"
        /\ reqs[q].st = "reading" /\ ~reqs[q].aborted /\ reqs[q].timer = "armed"

\* C10: within one loop at most one poll is in flight; poll N+1 is issued
\* only after poll N has returned a non-terminal status and the delay that
\* follows it has elapsed.
C10_Sequential ==
    \A t \in Tasks :
        tasks[t].op \in Loops =>
            /\ Cardinality(InFlight(t)) <= 1
            /\ Cardinality({r \in Reqs : reqs[r].owner = t}) <= 1
            /\ tasks[t].calls <= tasks[t].delays + 1
            /\ tasks[t].calls <= tasks[t].nonTerm + 1
            /\ tasks[t].delays <= tasks[t].nonTerm
            /\ InFlight(t) # {} => (tasks[t].pc = "awaiting" /\ tasks[t].sleep = "none")

C10_Witness ==
    \E t \in Tasks :
        /\ tasks[t].op \in Loops
        /\ tasks[t].calls = 3
        /\ tasks[t].delays = 2
        /\ tasks[t].nonTerm = 2
        /\ Cardinality(InFlight(t)) = 1

====
